---- MODULE Spec2Model ----
(***************************************************************************)
(* Model of process_roster.py: a master roster table is split into one     *)
(* table per team; two ratings are derived per player, five curated        *)
(* fields are taken over from the team's previous table, rows are sorted   *)
(* by rating and the team's table is rewritten.                            *)
(*                                                                         *)
(* A numeric cell is a sequence of one-character strings (<<"1","0">> is   *)
(* the text 10), so that int() and str() are real conversions.  A text     *)
(* cell (team, name, position, role) is an opaque string.                  *)
(***************************************************************************)
EXTENDS Integers, Sequences, FiniteSets, TLC

VARIABLES input,   \* the master roster file: [exists, rows]
          files,   \* the output directory: team code of each file in it -> [cols, rows]
          out,     \* standard output of the last invocation of main
          status,  \* how the last invocation ended: "none", "returned", "raised"
          calls,   \* calls of process_roster made by the last invocation
          reads,   \* team files opened for reading by the last invocation
          lastOp,  \* the last thing that happened: "init", "edit", "run"
          edits    \* manual edits made to output files so far

vars == <<input, files, out, status, calls, reads, lastOp, edits>>

----------------------------------------------------------------------------
(* Bounds *)

\* rows of the master roster
MaxRows == 3

\* rows of the master roster in the behaviours with manual edits
MaxEditRows == 2

\* manual edits in one behaviour
MaxEdits == 1

----------------------------------------------------------------------------
(* TEAM_MAPPING, process_roster.py lines 6-37 *)

TEAM_MAPPING ==
  [t \in {"Atlanta Hawks", "Boston Celtics", "Brooklyn Nets", "Charlotte Hornets",
          "Chicago Bulls", "Cleveland Cavaliers", "Dallas Mavericks", "Denver Nuggets",
          "Detroit Pistons", "Golden State Warriors", "Houston Rockets", "Indiana Pacers",
          "Los Angeles Clippers", "Los Angeles Lakers", "Memphis Grizzlies", "Miami Heat",
          "Milwaukee Bucks", "Minnesota Timberwolves", "New Orleans Pelicans",
          "New York Knicks", "Oklahoma City Thunder", "Orlando Magic", "Philadelphia 76ers",
          "Phoenix Suns", "Portland Trail Blazers", "Sacramento Kings", "San Antonio Spurs",
          "Toronto Raptors", "Utah Jazz", "Washington Wizards"} |->
     CASE t = "Atlanta Hawks" -> "Hawks"
       [] t = "Boston Celtics" -> "Celtics"
       [] t = "Brooklyn Nets" -> "Nets"
       [] t = "Charlotte Hornets" -> "Hornets"
       [] t = "Chicago Bulls" -> "Bulls"
       [] t = "Cleveland Cavaliers" -> "Cavaliers"
       [] t = "Dallas Mavericks" -> "Mavericks"
       [] t = "Denver Nuggets" -> "Nuggets"
       [] t = "Detroit Pistons" -> "Pistons"
       [] t = "Golden State Warriors" -> "Warriors"
       [] t = "Houston Rockets" -> "Rockets"
       [] t = "Indiana Pacers" -> "Pacers"
       [] t = "Los Angeles Clippers" -> "Clippers"
       [] t = "Los Angeles Lakers" -> "Lakers"
       [] t = "Memphis Grizzlies" -> "Grizzlies"
       [] t = "Miami Heat" -> "Heat"
       [] t = "Milwaukee Bucks" -> "Bucks"
       [] t = "Minnesota Timberwolves" -> "Timberwolves"
       [] t = "New Orleans Pelicans" -> "Pelicans"
       [] t = "New York Knicks" -> "Knicks"
       [] t = "Oklahoma City Thunder" -> "Thunder"
       [] t = "Orlando Magic" -> "Magic"
       [] t = "Philadelphia 76ers" -> "76ers"
       [] t = "Phoenix Suns" -> "Suns"
       [] t = "Portland Trail Blazers" -> "Trail Blazers"
       [] t = "Sacramento Kings" -> "Kings"
       [] t = "San Antonio Spurs" -> "Spurs"
       [] t = "Toronto Raptors" -> "Raptors"
       [] t = "Utah Jazz" -> "Jazz"
       [] t = "Washington Wizards" -> "Wizards"]

\* the team codes: one output file <code>.csv each
TeamCodes == {TEAM_MAPPING[t] : t \in DOMAIN TEAM_MAPPING}

----------------------------------------------------------------------------
(* Text of numbers: int() and str() *)

DigitChars == <<"0", "1", "2", "3", "4", "5", "6", "7", "8", "9">>

IsDigit(c) == \E d \in 1..10 : DigitChars[d] = c

DigitVal(c) == (CHOOSE d \in 1..10 : DigitChars[d] = c) - 1

\* the digits of s after an optional sign
Unsigned(s) == IF Len(s) > 0 /\ s[1] \in {"-", "+"} THEN Tail(s) ELSE s

\* whether int(s) returns (otherwise it raises ValueError)
IsInt(s) == Len(Unsigned(s)) > 0 /\ \A i \in 1..Len(Unsigned(s)) : IsDigit(Unsigned(s)[i])

RECURSIVE DigitsValue(_)
DigitsValue(s) ==
  IF s = <<>> THEN 0
  ELSE 10 * DigitsValue(SubSeq(s, 1, Len(s) - 1)) + DigitVal(s[Len(s)])

\* int(s) for a text s that parses
int(s) == IF Len(s) > 0 /\ s[1] = "-" THEN 0 - DigitsValue(Unsigned(s))
          ELSE DigitsValue(Unsigned(s))

RECURSIVE NatStr(_)
NatStr(n) == IF n < 10 THEN <<DigitChars[n + 1]>>
             ELSE NatStr(n \div 10) \o <<DigitChars[(n % 10) + 1]>>

\* str(n) of an integer n
str(n) == IF n < 0 THEN <<"-">> \o NatStr(0 - n) ELSE NatStr(n)

\* a rounding mean, for comparison with floor_mean
round_mean(total, count) == (2 * total + count) \div (2 * count)

\* math.floor(total / count), lines 53 and 62
floor_mean(total, count) == total \div count

----------------------------------------------------------------------------
(* Columns *)

\* the columns of the master roster that the program reads
SourceText == {"team", "name", "position"}

PassInputs == <<"passAccuracy", "passIQ", "passVision">>

AthleticInputs == <<"speed", "agility", "strength", "vertical", "stamina", "hustle">>

\* output column -> source column, for the columns copied verbatim (lines 71-90)
Copied ==
  [f \in {"rating", "insideRating", "midRating", "threeRating", "freeThrowPercent",
          "interiorDefense", "perimeterDefense", "orbRating", "drbRating", "stlRating",
          "blkRating", "layupRating", "standDunk", "drivingDunk", "durability",
          "offConst", "defConst", "drawFoul"} |->
     CASE f = "rating" -> "overallAttribute"
       [] f = "insideRating" -> "closeShot"
       [] f = "midRating" -> "midRangeShot"
       [] f = "threeRating" -> "threePointShot"
       [] f = "freeThrowPercent" -> "freeThrow"
       [] f = "interiorDefense" -> "interiorDefense"
       [] f = "perimeterDefense" -> "perimeterDefense"
       [] f = "orbRating" -> "offensiveRebound"
       [] f = "drbRating" -> "defensiveRebound"
       [] f = "stlRating" -> "steal"
       [] f = "blkRating" -> "block"
       [] f = "layupRating" -> "layup"
       [] f = "standDunk" -> "standingDunk"
       [] f = "drivingDunk" -> "drivingDunk"
       [] f = "durability" -> "overallDurability"
       [] f = "offConst" -> "offensiveConsistency"
       [] f = "defConst" -> "defensiveConsistency"
       [] f = "drawFoul" -> "drawFoul"]

Range(s) == {s[i] : i \in 1..Len(s)}

SourceNumeric == {Copied[f] : f \in DOMAIN Copied} \cup Range(PassInputs) \cup Range(AthleticInputs)

SourceFields == SourceText \cup SourceNumeric

\* the header of every team file written, lines 174-180
fieldnames ==
  <<"name", "englishName", "position", "playerType", "rotationType",
    "rating", "insideRating", "midRating", "threeRating", "freeThrowPercent",
    "interiorDefense", "perimeterDefense", "orbRating", "drbRating", "astRating",
    "stlRating", "blkRating", "layupRating", "standDunk", "drivingDunk",
    "athleticism", "durability", "offConst", "defConst", "drawFoul">>

\* the five columns taken over from the previous team file, lines 113-119 and 162-166
Protected == {"name", "englishName", "position", "playerType", "rotationType"}

RatingFields == Range(fieldnames) \ Protected

----------------------------------------------------------------------------
(* process_player, lines 39-93 *)

RECURSIVE SumInts(_, _)
SumInts(row, cols) ==
  IF cols = <<>> THEN 0 ELSE int(row[Head(cols)]) + SumInts(row, Tail(cols))

\* whether process_player(row) returns: the nine int() conversions of lines 50-61
Derivable(row) == \A f \in Range(PassInputs) \cup Range(AthleticInputs) : IsInt(row[f])

process_player(row) ==
  LET ast_rating == floor_mean(SumInts(row, PassInputs), 3)
      athleticism == floor_mean(SumInts(row, AthleticInputs), 6)
  IN [f \in Range(fieldnames) |->
        CASE f = "name" -> row["name"]
          [] f = "englishName" -> row["name"]
          [] f = "position" -> row["position"]
          [] f = "playerType" -> ""
          [] f = "rotationType" -> ""
          [] f = "astRating" -> str(ast_rating)
          [] f = "athleticism" -> str(athleticism)
          [] OTHER -> row[Copied[f]]]

----------------------------------------------------------------------------
(* read_existing_team_data, lines 95-120 *)

\* row.get(key, default) on a csv.DictReader row: a column of the header is a key
Get(row, key, default) == IF key \in DOMAIN row THEN row[key] ELSE default

\* line 111
english_name(row) == Get(row, "englishName", Get(row, "name", ""))

\* lines 113-119
existing_record(row) == [f \in Protected |-> Get(row, f, "")]

\* an index that keeps the first row of a key, for comparison with index_row
index_row_keep_first(player_info, row) ==
  IF english_name(row) # "" /\ english_name(row) \notin DOMAIN player_info
  THEN (english_name(row) :> existing_record(row)) @@ player_info
  ELSE player_info

\* one iteration of the loop of lines 109-119: a later row replaces an earlier one
index_row(player_info, row) ==
  IF english_name(row) # ""
  THEN (english_name(row) :> existing_record(row)) @@ player_info
  ELSE player_info

RECURSIVE index_rows(_, _)
index_rows(player_info, rows) ==
  IF rows = <<>> THEN player_info
  ELSE index_rows(index_row(player_info, Head(rows)), Tail(rows))

\* dir is the output directory and code the team file looked for (line 106)
read_existing_team_data(dir, code) ==
  IF code \in DOMAIN dir THEN index_rows(<<>>, dir[code].rows) ELSE <<>>

----------------------------------------------------------------------------
(* process_roster, lines 122-189 *)

\* a reconciliation that forgets the position, for comparison with reconcile
reconcile_without_position(processed, player_row, existing_player_info) ==
  IF player_row["name"] \in DOMAIN existing_player_info
  THEN [f \in DOMAIN processed |->
          IF f \in Protected \ {"position"}
          THEN existing_player_info[player_row["name"]][f]
          ELSE processed[f]]
  ELSE processed

\* lines 157-166
reconcile(processed, player_row, existing_player_info) ==
  IF player_row["name"] \in DOMAIN existing_player_info
  THEN [f \in DOMAIN processed |->
          IF f \in Protected
          THEN existing_player_info[player_row["name"]][f]
          ELSE processed[f]]
  ELSE processed

\* lines 153-168, for players that all pass process_player
process_players(players, existing_player_info) ==
  [i \in 1..Len(players) |->
     reconcile(process_player(players[i]), players[i], existing_player_info)]

\* the sort key of line 171
rating_key(player) == int(player["rating"])

\* whether the sort of line 171 returns: the key of every row is computed first
Sortable(players) == \A i \in 1..Len(players) : IsInt(players[i]["rating"])

\* an insertion that puts a row before the rows of equal rating
insert_before_equal(sorted, player) ==
  LET n == Cardinality({i \in 1..Len(sorted) : rating_key(sorted[i]) > rating_key(player)})
  IN SubSeq(sorted, 1, n) \o <<player>> \o SubSeq(sorted, n + 1, Len(sorted))

\* sorted is in descending order of rating; player goes after the rows whose
\* rating is at least its own
insert_by_rating(sorted, player) ==
  LET n == Cardinality({i \in 1..Len(sorted) : rating_key(sorted[i]) >= rating_key(player)})
  IN SubSeq(sorted, 1, n) \o <<player>> \o SubSeq(sorted, n + 1, Len(sorted))

RECURSIVE sort_from(_, _)
sort_from(sorted, players) ==
  IF players = <<>> THEN sorted
  ELSE sort_from(insert_by_rating(sorted, Head(players)), Tail(players))

\* list.sort(key=..., reverse=True) of line 171: stable, descending
sort_by_rating(players) == sort_from(<<>>, players)

\* a line of standard output
Msg(kind, team, code, n) == [kind |-> kind, team |-> team, code |-> code, n |-> n]

\* a write that appends to the rows already in the file
append_team_file(dir, code, processed_players) ==
  (code :> [cols |-> fieldnames,
            rows |-> (IF code \in DOMAIN dir THEN dir[code].rows ELSE <<>>)
                     \o processed_players]) @@ dir

\* lines 182-185: open(output_file, 'w') creates or empties the file, then the
\* header and the rows are written
write_team_file(dir, code, processed_players) ==
  (code :> [cols |-> fieldnames, rows |-> processed_players]) @@ dir

\* a failure after the output file was opened for writing
abort_team_truncated(st, code) ==
  [st EXCEPT !.raised = TRUE, !.files = (code :> [cols |-> <<>>, rows |-> <<>>]) @@ @]

\* ValueError out of process_player (line 155) or out of the sort (line 171):
\* nothing is caught, and the output file of the team was not yet opened for writing
abort_team(st, code) == [st EXCEPT !.raised = TRUE]

\* lines 144-187, one mapped team; st = [files, out, reads, raised]
process_team(st, team_full_name, players) ==
  LET team_short_name == TEAM_MAPPING[team_full_name]
      existing_player_info == read_existing_team_data(st.files, team_short_name)
      st1 == [st EXCEPT
                !.reads = IF team_short_name \in DOMAIN st.files
                          THEN @ \cup {team_short_name} ELSE @,
                !.out = Append(@, Msg("Processing", team_full_name, team_short_name,
                                      Len(players)))]
  IN IF \E i \in 1..Len(players) : ~Derivable(players[i])
     THEN abort_team(st1, team_short_name)
     ELSE LET processed_players == process_players(players, existing_player_info)
          IN IF ~Sortable(processed_players)
             THEN abort_team(st1, team_short_name)
             ELSE [st1 EXCEPT
                     !.files = write_team_file(@, team_short_name,
                                               sort_by_rating(processed_players)),
                     !.out = Append(@, Msg("Saved", team_full_name, team_short_name,
                                           Len(processed_players)))]

\* a lookup TEAM_MAPPING[team] of a team that is no key
fail_unmapped(st, team_full_name) == [st EXCEPT !.raised = TRUE]

\* lines 188-189
warn_unmapped(st, team_full_name) ==
  [st EXCEPT !.out = Append(@, Msg("Warning", team_full_name, "", 0))]

\* the keys of players_by_team in insertion order, lines 135-139
RECURSIVE team_order(_, _)
team_order(seen, rows) ==
  IF rows = <<>> THEN seen
  ELSE team_order(IF Head(rows)["team"] \in Range(seen) THEN seen
                  ELSE Append(seen, Head(rows)["team"]),
                  Tail(rows))

\* players_by_team[team], lines 135-139
players_by_team(rows, team) == SelectSeq(rows, LAMBDA r : r["team"] = team)

\* the loop of line 142; an exception ends it
RECURSIVE process_teams(_, _, _)
process_teams(st, rows, teams) ==
  IF teams = <<>> \/ st.raised THEN st
  ELSE process_teams(
         IF Head(teams) \in DOMAIN TEAM_MAPPING
         THEN process_team(st, Head(teams), players_by_team(rows, Head(teams)))
         ELSE warn_unmapped(st, Head(teams)),
         rows, Tail(teams))

process_roster(rows, dir) ==
  process_teams([files |-> dir, out |-> <<>>, reads |-> {}, raised |-> FALSE],
                rows, team_order(<<>>, rows))

----------------------------------------------------------------------------
(* main, lines 191-210 *)

Banner == <<Msg("Starting", "", "", 0), Msg("InputFile", "", "", 0),
            Msg("OutputDir", "", "", 0), Msg("Rule", "", "", 0)>>

\* main without the test of line 197: open() of line 133 raises
main_unchecked(inp, dir) ==
  LET r == IF inp.exists THEN process_roster(inp.rows, dir)
           ELSE [files |-> dir, out |-> <<>>, reads |-> {}, raised |-> TRUE]
  IN [files |-> r.files,
      out |-> Banner \o r.out \o
              (IF r.raised THEN <<>>
               ELSE <<Msg("Rule", "", "", 0), Msg("Completed", "", "", 0)>>),
      status |-> IF r.raised THEN "raised" ELSE "returned",
      calls |-> 1,
      reads |-> r.reads]

\* what one invocation of main does to the output directory dir
main(inp, dir) ==
  IF ~inp.exists
  THEN [files |-> dir, out |-> <<Msg("Error", "", "", 0)>>, status |-> "returned",
        calls |-> 0, reads |-> {}]
  ELSE LET r == process_roster(inp.rows, dir)
       IN [files |-> r.files,
           out |-> Banner \o r.out \o
                   (IF r.raised THEN <<>>
                    ELSE <<Msg("Rule", "", "", 0), Msg("Completed", "", "", 0)>>),
           status |-> IF r.raised THEN "raised" ELSE "returned",
           calls |-> 1,
           reads |-> r.reads]

----------------------------------------------------------------------------
(* The rosters and output directories the runs start from *)

\* a roster row whose numeric cells are all 50
BaseRow == [f \in SourceFields |-> IF f \in SourceText THEN "" ELSE <<"5", "0">>]

\* drawFoul is different in every row of the catalogue: it tells the rows apart
Player(team, name, position, overall, drawFoul) ==
  [BaseRow EXCEPT !["team"] = team, !["name"] = name, !["position"] = position,
                  !["overallAttribute"] = overall, !["drawFoul"] = drawFoul]

\* the roster rows the inputs are made of: two players of one name, equal
\* ratings, a two-digit rating, a team that is no key of TEAM_MAPPING, a
\* rating that is no integer and a passIQ that is no integer
Catalogue ==
  { [Player("Golden State Warriors", "Curry", "PG", <<"1", "0">>, <<"6", "1">>) EXCEPT
       !["passAccuracy"] = <<"7", "0">>, !["passIQ"] = <<"7", "0">>,
       !["passVision"] = <<"7", "1">>, !["speed"] = <<"8", "0">>,
       !["agility"] = <<"8", "0">>, !["strength"] = <<"8", "0">>,
       !["vertical"] = <<"8", "0">>, !["stamina"] = <<"8", "0">>,
       !["hustle"] = <<"8", "5">>],
    Player("Golden State Warriors", "Green", "PF", <<"9">>, <<"6", "2">>),
    Player("Golden State Warriors", "Curry", "SG", <<"9">>, <<"6", "3">>),
    Player("Atlanta Hawks", "Young", "PG", <<"9">>, <<"6", "4">>),
    Player("Unknown Team XYZ", "Ghost", "C", <<"x">>, <<"6", "5">>),
    Player("Atlanta Hawks", "Bad", "C", <<"x">>, <<"6", "6">>),
    [Player("Boston Celtics", "Nan", "SF", <<"8">>, <<"6", "7">>) EXCEPT
       !["passIQ"] = <<>>] }

\* sequences of at most n different rows of the catalogue
Tables(n) ==
  {s \in UNION {[1..k -> Catalogue] : k \in 0..n} :
     \A i, j \in 1..Len(s) : i # j => s[i] # s[j]}

Inputs == {[exists |-> FALSE, rows |-> <<>>]} \cup
          {[exists |-> TRUE, rows |-> s] : s \in Tables(MaxRows)}

\* a row of an earlier team file, all 25 columns
OldRow(name, englishName, position, playerType, rotationType) ==
  [f \in Range(fieldnames) |->
     CASE f = "name" -> name
       [] f = "englishName" -> englishName
       [] f = "position" -> position
       [] f = "playerType" -> playerType
       [] f = "rotationType" -> rotationType
       [] OTHER -> <<"4", "0">>]

EmptyDir == <<>>

\* output directories before the first run: empty; a Warriors file with a
\* curated row of Curry and a row of a player who has left; a Warriors file
\* from before the englishName column; a Hawks file with a blank englishName
PriorDirs ==
  { EmptyDir,
    "Warriors" :>
       [cols |-> fieldnames,
        rows |-> <<OldRow("Stephen", "Curry", "G", "MVP", "Starter"),
                   OldRow("Old", "Old", "C", "", "Reserve")>>],
    "Warriors" :>
       [cols |-> <<"name", "position">>,
        rows |-> <<[f \in {"name", "position"} |->
                      IF f = "name" THEN "Curry" ELSE "G"]>>],
    "Hawks" :>
       [cols |-> fieldnames,
        rows |-> <<OldRow("Young", "", "G", "MVP", "Reserve")>>] }

\* what a manual edit writes into a protected cell
EditValue ==
  [f \in Protected |->
     CASE f = "name" -> "Kuli"
       [] f = "englishName" -> "LBJ"
       [] f = "position" -> "Guard"
       [] f = "playerType" -> "Scorer"
       [] f = "rotationType" -> "Bench"]

----------------------------------------------------------------------------
(* The state machine *)

Init ==
  /\ input \in Inputs
  /\ files \in PriorDirs
  /\ out = <<>>
  /\ status = "none"
  /\ calls = 0
  /\ reads = {}
  /\ lastOp = "init"
  /\ edits = 0

\* one invocation of the program, lines 191-210
Main ==
  \E r \in {main(input, files)} :
     /\ files' = r.files
     /\ out' = r.out
     /\ status' = r.status
     /\ calls' = r.calls
     /\ reads' = r.reads
     /\ lastOp' = "run"
     /\ UNCHANGED <<input, edits>>

\* between runs, somebody edits a protected cell of a row of a team file
EditField ==
  /\ edits < MaxEdits
  /\ \E c \in DOMAIN files :
       /\ \E i \in 1..Len(files[c].rows), f \in Protected \cap Range(files[c].cols) :
            /\ files[c].rows[i][f] # EditValue[f]
            /\ files' = [files EXCEPT ![c].rows[i][f] = EditValue[f]]
  /\ edits' = edits + 1
  /\ lastOp' = "edit"
  /\ UNCHANGED <<input, out, status, calls, reads>>

\* runs of the program, one after the other
Next == Main

Spec == Init /\ [][Next]_vars

\* runs of the program on a short roster whose cells are all integers, with
\* manual edits of the team files
InitEdit ==
  /\ Init
  /\ Len(input.rows) <= MaxEditRows
  /\ \A i \in 1..Len(input.rows) : \A f \in SourceNumeric : IsInt(input.rows[i][f])

NextEdit == Main \/ EditField

SpecEdit == InitEdit /\ [][NextEdit]_vars

\* the cells the two derived ratings are computed from, for SpecDerive
PassCells == {<<"7", "0">>, <<"7", "1">>, <<"-", "1">>, <<"0">>, <<"x">>}

AthleticCells == {<<"8", "0">>, <<"8", "5">>}

\* one roster row of the Warriors with every combination of those cells, and
\* an empty output directory
InitDerive ==
  /\ \E p \in [Range(PassInputs) -> PassCells], a \in [Range(AthleticInputs) -> AthleticCells] :
       input = [exists |-> TRUE,
                rows |-> <<[f \in SourceFields |->
                              IF f \in DOMAIN p THEN p[f]
                              ELSE IF f \in DOMAIN a THEN a[f]
                              ELSE Player("Golden State Warriors", "Curry", "PG",
                                          <<"9", "0">>, <<"6", "1">>)[f]]>>]
  /\ files = EmptyDir
  /\ out = <<>>
  /\ status = "none"
  /\ calls = 0
  /\ reads = {}
  /\ lastOp = "init"
  /\ edits = 0

NextDerive == Main

SpecDerive == InitDerive /\ [][NextDerive]_vars

----------------------------------------------------------------------------
(* What the claims speak of *)

\* the step is a run of the program
IsRun == lastOp' = "run"

\* the standard output o reports that the file of team code c was written
Saved(o, c) == \E i \in 1..Len(o) : o[i].kind = "Saved" /\ o[i].code = c

\* the standard output o holds the warning for team t
Warned(o, t) == \E i \in 1..Len(o) : o[i].kind = "Warning" /\ o[i].team = t

\* the roster rows whose team is a key of TEAM_MAPPING with code c, in roster order
SourceRows(c) ==
  SelectSeq(input.rows,
            LAMBDA r : r["team"] \in DOMAIN TEAM_MAPPING /\ TEAM_MAPPING[r["team"]] = c)

\* an int() of the row fails: a rating input or the sort key is no integer
BadRow(r) ==
  \E f \in Range(PassInputs) \cup Range(AthleticInputs) \cup {"overallAttribute"} :
     ~IsInt(r[f])

\* row is the output of roster row src as far as the 18 copied columns go
CopiedFrom(row, src) == \A f \in DOMAIN Copied : row[f] = src[Copied[f]]

\* rows is a rearrangement p of the output of the roster rows srcs
Rearranges(p, rows, srcs) ==
  /\ Len(rows) = Len(srcs)
  /\ \A i \in 1..Len(rows) : CopiedFrom(rows[i], srcs[p[i]])

\* file c is the same, or as absent, in directory d2 as in directory d1
SameFile(d1, d2, c) ==
  /\ c \in DOMAIN d1 <=> c \in DOMAIN d2
  /\ c \in DOMAIN d1 => d1[c] = d2[c]

----------------------------------------------------------------------------
(* C1 *)

\* C1: a second run right after a first, successful run of the same input, with
\* no edit in between, leaves every team file as the first run wrote it.
C1_SecondRunChangesNothing ==
  [][(lastOp = "run" /\ status = "returned" /\ IsRun) => files' = files]_vars

----------------------------------------------------------------------------
(* C7 *)

\* C7: when the input file does not exist, a run prints the one error message,
\* returns normally, never calls process_roster, and creates, reads and
\* modifies no team file.
C7_MissingInput ==
  [][(IsRun /\ ~input.exists) =>
       /\ out' = <<Msg("Error", "", "", 0)>>
       /\ status' = "returned"
       /\ calls' = 0
       /\ reads' = {}
       /\ files' = files]_vars

\* a run has ended on a missing input file, in a directory that holds a file
C7_Witness ==
  /\ lastOp = "run"
  /\ ~input.exists
  /\ Len(out) = 1
  /\ DOMAIN files # {}

----------------------------------------------------------------------------
(* C9 *)

\* the key C9 gives a row of an existing team file
C9_Key(row) ==
  IF "englishName" \in DOMAIN row /\ row["englishName"] # ""
  THEN row["englishName"]
  ELSE Get(row, "name", "")

\* C9: the index a run builds of an existing team file it reads has the
\* englishName of each row as a key, and the name of the row instead when
\* englishName is blank or the column is absent; only rows without either are
\* left out.
C9_KeyRule ==
  [][IsRun =>
       \A c \in reads' :
          DOMAIN read_existing_team_data(files, c) =
            {C9_Key(files[c].rows[i]) : i \in 1..Len(files[c].rows)} \ {""}]_vars

----------------------------------------------------------------------------
(* C5 *)

\* v is floor(total / count)
IsFloor(v, total, count) == count * v <= total /\ total < count * v + count

\* s is the decimal text of an integer as str() writes it
IsDecimal(s) ==
  /\ IsInt(s)
  /\ s[1] # "+"
  /\ Len(Unsigned(s)) > 1 => Unsigned(s)[1] # "0"
  /\ s[1] = "-" => int(s) # 0

\* C5: the row written for a roster row whose nine inputs parse has as
\* astRating the decimal text of floor((passAccuracy + passIQ + passVision) / 3)
\* and as athleticism that of
\* floor((speed + agility + strength + vertical + stamina + hustle) / 6).
C5_DerivedRatings ==
  \A c \in DOMAIN files :
     \A i \in 1..Len(files[c].rows) :
        LET row == files[c].rows[i]
            src == input.rows[1]
        IN /\ IsDecimal(row["astRating"])
           /\ IsFloor(int(row["astRating"]),
                      int(src["passAccuracy"]) + int(src["passIQ"]) + int(src["passVision"]),
                      3)
           /\ IsDecimal(row["athleticism"])
           /\ IsFloor(int(row["athleticism"]),
                      int(src["speed"]) + int(src["agility"]) + int(src["strength"])
                        + int(src["vertical"]) + int(src["stamina"]) + int(src["hustle"]),
                      6)

\* 70, 70, 71 gave 70 and 80, 80, 80, 80, 80, 85 gave 80
C5_Witness ==
  /\ lastOp = "run"
  /\ input.rows[1]["passAccuracy"] = <<"7", "0">>
  /\ input.rows[1]["passIQ"] = <<"7", "0">>
  /\ input.rows[1]["passVision"] = <<"7", "1">>
  /\ \A f \in Range(AthleticInputs) \ {"hustle"} : input.rows[1][f] = <<"8", "0">>
  /\ input.rows[1]["hustle"] = <<"8", "5">>
  /\ "Warriors" \in DOMAIN files
  /\ files["Warriors"].rows[1]["astRating"] = <<"7", "0">>
  /\ files["Warriors"].rows[1]["athleticism"] = <<"8", "0">>

----------------------------------------------------------------------------
(* C3 *)

\* the last row of the file that has key k, when some row has
LastWithKey(file, k) ==
  CHOOSE j \in 1..Len(file.rows) :
     /\ english_name(file.rows[j]) = k
     /\ \A l \in (j + 1)..Len(file.rows) : english_name(file.rows[l]) # k

\* row is what C3 says is written for roster row src of the team with code c,
\* dir being the output directory before the run
C3_RowFor(row, src, dir, c) ==
  /\ \A f \in RatingFields : row[f] = process_player(src)[f]
  /\ IF /\ c \in DOMAIN dir
        /\ src["name"] # ""
        /\ \E j \in 1..Len(dir[c].rows) : english_name(dir[c].rows[j]) = src["name"]
     THEN \A f \in Protected :
             row[f] = Get(dir[c].rows[LastWithKey(dir[c], src["name"])], f, "")
     ELSE /\ row["name"] = src["name"]
          /\ row["englishName"] = src["name"]
          /\ row["position"] = src["position"]
          /\ row["playerType"] = ""
          /\ row["rotationType"] = ""

\* C3: every row a run writes takes the five protected fields from the existing
\* record whose key is the roster row's name and the 20 other fields from the
\* roster row; without such a record, name and englishName are the roster name,
\* position the roster position, playerType and rotationType empty.
C3_Reconciliation ==
  [][IsRun =>
       \A c \in TeamCodes :
          Saved(out', c) =>
             \E p \in Permutations(1..Len(SourceRows(c))) :
                /\ Rearranges(p, files'[c].rows, SourceRows(c))
                /\ \A i \in 1..Len(SourceRows(c)) :
                      C3_RowFor(files'[c].rows[i], SourceRows(c)[p[i]], files, c)]_vars

\* a run has written a row with the curated fields of the earlier Warriors file
\* and the rating of the roster
C3_Witness ==
  /\ lastOp = "run"
  /\ Saved(out, "Warriors")
  /\ \E i \in 1..Len(files["Warriors"].rows) :
        /\ files["Warriors"].rows[i]["name"] = "Stephen"
        /\ files["Warriors"].rows[i]["englishName"] = "Curry"
        /\ files["Warriors"].rows[i]["position"] = "G"
        /\ files["Warriors"].rows[i]["playerType"] = "MVP"
        /\ files["Warriors"].rows[i]["rotationType"] = "Starter"
        /\ files["Warriors"].rows[i]["rating"] = <<"1", "0">>
        /\ files["Warriors"].rows[i]["astRating"] = <<"7", "0">>

----------------------------------------------------------------------------
(* C4 *)

\* C4: the rows of a file a run writes are the team's roster rows in descending
\* order of the integer rating, rows of equal rating in roster order.
C4_OutputOrder ==
  [][IsRun =>
       \A c \in TeamCodes :
          Saved(out', c) =>
             \E p \in Permutations(1..Len(SourceRows(c))) :
                /\ Rearranges(p, files'[c].rows, SourceRows(c))
                /\ \A i, j \in 1..Len(SourceRows(c)) :
                      i < j =>
                        /\ int(files'[c].rows[i]["rating"]) >= int(files'[c].rows[j]["rating"])
                        /\ int(files'[c].rows[i]["rating"]) = int(files'[c].rows[j]["rating"])
                             => p[i] < p[j]]_vars

\* a roster with ratings 9, 10, 9 of one team was written as 10, 9, 9, the two
\* rows of rating 9 in roster order
C4_Witness ==
  /\ lastOp = "run"
  /\ Saved(out, "Warriors")
  /\ Len(input.rows) = 3
  /\ input.rows[1]["overallAttribute"] = <<"9">>
  /\ input.rows[2]["overallAttribute"] = <<"1", "0">>
  /\ input.rows[3]["overallAttribute"] = <<"9">>
  /\ Len(files["Warriors"].rows) = 3
  /\ files["Warriors"].rows[1]["rating"] = <<"1", "0">>
  /\ files["Warriors"].rows[2]["drawFoul"] = input.rows[1]["drawFoul"]
  /\ files["Warriors"].rows[3]["drawFoul"] = input.rows[3]["drawFoul"]

----------------------------------------------------------------------------
(* C6 *)

\* the teams of the roster
InputTeams == {input.rows[i]["team"] : i \in 1..Len(input.rows)}

\* C6: a team that is no key of TEAM_MAPPING gets a warning and does not stop
\* the run; no file is created or changed but those of the mapped teams of the
\* roster; a file written holds the rows of its own team only; and every
\* mapped team is written to the file of its code.
C6_UnmappedTeams ==
  [][(IsRun /\ input.exists) =>
       /\ (\A i \in 1..Len(input.rows) :
              input.rows[i]["team"] \in DOMAIN TEAM_MAPPING => ~BadRow(input.rows[i]))
            => status' = "returned"
       /\ \A c \in DOMAIN files' :
             ~SameFile(files, files', c) => SourceRows(c) # <<>>
       /\ \A c \in TeamCodes :
             Saved(out', c) =>
                \E p \in Permutations(1..Len(SourceRows(c))) :
                   Rearranges(p, files'[c].rows, SourceRows(c))
       /\ status' = "returned" =>
             \A t \in InputTeams :
                IF t \in DOMAIN TEAM_MAPPING
                THEN /\ Saved(out', TEAM_MAPPING[t])
                     /\ TEAM_MAPPING[t] \in DOMAIN files'
                     /\ files'[TEAM_MAPPING[t]].cols = fieldnames
                ELSE Warned(out', t)]_vars

\* a run of a roster with the unmapped team between two mapped ones has ended:
\* the warning is out and both mapped teams are written
C6_Witness ==
  /\ lastOp = "run"
  /\ status = "returned"
  /\ Len(input.rows) = 3
  /\ input.rows[1]["team"] = "Golden State Warriors"
  /\ input.rows[2]["team"] = "Unknown Team XYZ"
  /\ input.rows[3]["team"] = "Atlanta Hawks"
  /\ Warned(out, "Unknown Team XYZ")
  /\ Saved(out, "Warriors")
  /\ Saved(out, "Hawks")
  /\ DOMAIN files = {"Warriors", "Hawks"}

----------------------------------------------------------------------------
(* C8 *)

\* C8: after a successful run the file of every mapped team of the roster has
\* the 25 columns and exactly one row per roster row of the team, rows of one
\* name all kept; no row has the key of a row of the previous file whose key
\* is the name of no roster row of the team.
C8_FullOverwrite ==
  [][(IsRun /\ input.exists /\ status' = "returned") =>
       \A c \in TeamCodes :
          SourceRows(c) # <<>> =>
             /\ c \in DOMAIN files'
             /\ files'[c].cols = fieldnames
             /\ \E p \in Permutations(1..Len(SourceRows(c))) :
                   Rearranges(p, files'[c].rows, SourceRows(c))
             /\ c \in DOMAIN files =>
                   \A j \in 1..Len(files[c].rows) :
                      (/\ english_name(files[c].rows[j]) # ""
                       /\ \A i \in 1..Len(SourceRows(c)) :
                             SourceRows(c)[i]["name"] # english_name(files[c].rows[j]))
                        => \A i \in 1..Len(files'[c].rows) :
                              files'[c].rows[i]["englishName"]
                                 # english_name(files[c].rows[j])]_vars

\* a successful run over an earlier Warriors file (its curated Curry row is in
\* the new file) has written two rows of the name Curry and no row of Old
C8_Witness ==
  /\ lastOp = "run"
  /\ status = "returned"
  /\ Saved(out, "Warriors")
  /\ Len(files["Warriors"].rows) = 2
  /\ \A i \in 1..2 : files["Warriors"].rows[i]["englishName"] = "Curry"
  /\ \A i \in 1..2 : files["Warriors"].rows[i]["name"] = "Stephen"

----------------------------------------------------------------------------
(* C10 *)

\* the teams of the roster in the order of their first rows
TeamsInOrder == team_order(<<>>, input.rows)

\* the file of code c holds all rows of its team, written by this run
Rewritten(dir, c) ==
  /\ c \in DOMAIN dir
  /\ dir[c].cols = fieldnames
  /\ \E p \in Permutations(1..Len(SourceRows(c))) :
        Rearranges(p, dir[c].rows, SourceRows(c))

\* C10: when a run is aborted by a value that is no integer, the team T of that
\* value has its file as before the run, the mapped teams before T have their
\* files rewritten in full, and the files of the teams after T are as before.
C10_AbortBetweenTeams ==
  [][(IsRun /\ status' = "raised") =>
       \E k \in 1..Len(TeamsInOrder) :
          /\ TeamsInOrder[k] \in DOMAIN TEAM_MAPPING
          /\ \E i \in 1..Len(input.rows) :
                input.rows[i]["team"] = TeamsInOrder[k] /\ BadRow(input.rows[i])
          /\ SameFile(files, files', TEAM_MAPPING[TeamsInOrder[k]])
          /\ \A j \in 1..Len(TeamsInOrder) :
                (j # k /\ TeamsInOrder[j] \in DOMAIN TEAM_MAPPING) =>
                   IF j < k
                   THEN /\ Rewritten(files', TEAM_MAPPING[TeamsInOrder[j]])
                        /\ Saved(out', TEAM_MAPPING[TeamsInOrder[j]])
                   ELSE SameFile(files, files', TEAM_MAPPING[TeamsInOrder[j]])]_vars

\* a run was aborted in the Celtics, the second of three teams: the Warriors
\* are written, the Celtics have no file and the earlier Hawks file is as it was
C10_Witness ==
  /\ lastOp = "run"
  /\ status = "raised"
  /\ Len(input.rows) = 3
  /\ input.rows[1]["team"] = "Golden State Warriors"
  /\ input.rows[2]["team"] = "Boston Celtics"
  /\ input.rows[3]["team"] = "Atlanta Hawks"
  /\ Saved(out, "Warriors")
  /\ DOMAIN files = {"Warriors", "Hawks"}
  /\ files["Hawks"].rows = <<OldRow("Young", "", "G", "MVP", "Reserve")>>

----------------------------------------------------------------------------
(* C2 *)

\* what the program writes for the team of code c into an empty directory: the
\* i-th row of a file of c written by a run is the row of the same roster row
RosterOrder(c) == sort_by_rating(process_players(SourceRows(c), <<>>))

\* C2 as claimed, for the rows whose englishName is not blank and is that of no
\* other row of the file: a row of a file that the last run wrote, edited or
\* not in any of its five protected fields, has the same five values after the
\* next run.
C2_EveryEditPersists ==
  [][IsRun =>
       \A c \in TeamCodes :
          (Saved(out, c) /\ Saved(out', c)) =>
             \A i \in 1..Len(files[c].rows) :
                (/\ files[c].rows[i]["englishName"] # ""
                 /\ \A j \in 1..Len(files[c].rows) :
                       j # i => files[c].rows[j]["englishName"] # files[c].rows[i]["englishName"])
                  => \A f \in Protected : files'[c].rows[i][f] = files[c].rows[i][f]]_vars

\* C2 as amended: a row of a file that the last run wrote, whose englishName is
\* still the non-blank roster name of its player and whose five protected
\* values are those of every later row of that englishName, has the same five
\* values after the next run, and the 20 other fields as derived from the roster.
C2_EditsOfMatchedRowsPersist ==
  [][IsRun =>
       \A c \in DOMAIN files :
          (Saved(out, c) /\ Saved(out', c)) =>
             \E order \in {RosterOrder(c)} :
                \A i \in 1..Len(files[c].rows) :
                   (/\ files[c].rows[i]["englishName"] = order[i]["name"]
                    /\ files[c].rows[i]["englishName"] # ""
                    /\ \A j \in (i + 1)..Len(files[c].rows) :
                          files[c].rows[j]["englishName"] = files[c].rows[i]["englishName"]
                            => \A f \in Protected :
                                  files[c].rows[j][f] = files[c].rows[i][f])
                     => /\ \A f \in Protected : files'[c].rows[i][f] = files[c].rows[i][f]
                        /\ \A f \in RatingFields : files'[c].rows[i][f] = order[i][f]]_vars

\* a run has kept a playerType that only a manual edit writes, in a row with
\* the rating of the roster
C2_Witness ==
  /\ lastOp = "run"
  /\ edits > 0
  /\ \E c \in DOMAIN files :
        /\ Saved(out, c)
        /\ \E i \in 1..Len(files[c].rows) :
              /\ files[c].rows[i]["playerType"] = EditValue["playerType"]
              /\ files[c].rows[i]["englishName"] = RosterOrder(c)[i]["name"]
              /\ files[c].rows[i]["rating"] = RosterOrder(c)[i]["rating"]

====
